---- MODULE Spec2Model ----
(***************************************************************************)
(* Model of the "Download Missing Models" dialog of                        *)
(* pkyme/ComfyUI-Download-Missing.                                         *)
(*                                                                         *)
(*   Spec            : the dialog with the UI freeze, status polling and   *)
(*                     parallel Download All (class MissingModelsDialog    *)
(*                     with freezeUI / scheduleDomUpdate), together with   *)
(*                     the backend it talks to and the user who drives it, *)
(*                     over several show() sessions; every status request  *)
(*                     is answered before the next tick.                   *)
(*   SpecPolling     : the first session of the same dialog, with the      *)
(*                     status requests of pollEndpoint under way while     *)
(*                     further ticks fire, so that answers overlap.        *)
(*   SpecBoth        : the first session with two missing models, every    *)
(*                     status request answered before the next tick.       *)
(*   SpecBatch       : the dialog with the progress socket (the third      *)
(*                     MissingModelsDialog of web/missing-models.js):      *)
(*                     analyzeWorkflow and downloadAllMissing.             *)
(*   SpecSocket      : the progress socket of that dialog: setupWebSocket, *)
(*                     close events and reconnect timers.                  *)
(*   SpecCorrections : MissingModelsDialog.applyCorrectionsToGraph as a    *)
(*                     function of the host graph and a correction list.   *)
(***************************************************************************)
EXTENDS Integers, Sequences, FiniteSets, TLC

VARIABLES
    \* ---- fields of MissingModelsDialog ----
    missingModels,           \* this.missingModels: the model objects, each with its card
    notFoundModels,          \* this.notFoundModels
    correctedModels,         \* this.correctedModels
    downloadingModels,       \* this.downloadingModels: Set of model names
    pendingProgressUpdates,  \* this.pendingProgressUpdates: Map name -> {model, progress}
    uiFrozen,                \* this.uiFrozen
    isMouseDown,             \* this.isMouseDown
    domUpdateQueue,          \* this.domUpdateQueue: deferred DOM update closures
    availableFolders,        \* this.availableFolders
    updateButtonTimeout,     \* this._updateButtonTimeout: the debounce timer is armed
    \* ---- the DOM ----
    statusBar,               \* text of this.statusElement
    listView,                \* what this.modelsListElement shows
    downloadAllDisabled,     \* this.downloadAllButton.disabled
    visible,                 \* this.element is displayed
    dragListeners,           \* the mousedown / mouseup listeners are attached
    \* ---- requests in flight and objects no longer in missingModels ----
    detached,                \* per name: requests and polls of model objects of earlier lists
    scans,                   \* per show(): "folders", "scanning", "done", or "failed"
                             \* (the scan threw, its progress poll goes on)
    cancelRequests,          \* POST /download-missing/cancel not yet handled by the backend
    \* ---- the host graph ----
    graph,        \* app.graph: node id -> node (widgets_values, widgets, properties.models)
    dirty,        \* the host graph was marked dirty (setDirtyCanvas + change)
    \* ---- the backend ----
    backend,                 \* per name: state of the download the backend runs
    \* ---- history ----
    activeDownloads,         \* names requested and not yet failed / reported terminal / closed
    deferLog,                \* the updates deferred in the current freeze, as produced
    showCount,               \* how often show() was invoked
    lastCall,                \* "guard": downloadModel has just returned at its guard;
                             \* "flush": unfreezeUI has just applied pending progress
                             \* updates and queued updates; "" otherwise
    escaped,      \* an exception left applyCorrectionsToGraph
    graph0,       \* the graph before the last applyCorrectionsToGraph call
    corrections,  \* the argument of the last applyCorrectionsToGraph call
    corrPc,       \* "idle" before the call, "done" after it
    \* ---- the dialog with the progress socket (third MissingModelsDialog) ----
    wsMissingModels,         \* this.missingModels: the names of the missing models
    wsDownloadAllDisabled,   \* the disabled flag of #download-all-button
    wsStatus,                \* the text of #status-area
    wsVisible,               \* this.element.style.display is "block"
    batch,                   \* the downloadAllMissing call under way: its position,
                             \* its index i, its counters, the list it started on
    posts,                   \* the model names of the download requests of that call
    websocket,               \* this.websocket: index into sockets, 0 for null
    sockets,                 \* readyState of every WebSocket created so far
    reconnectTimers,         \* the delays of the setTimeout callbacks of onclose not yet run
    closeCount,              \* history: how often onclose ran
    timerAttempts            \* history: how often a timer called setupWebSocket

\* the dialog object, its DOM, its requests and their history
dvars == <<missingModels, notFoundModels, correctedModels, downloadingModels,
           pendingProgressUpdates, uiFrozen, isMouseDown, domUpdateQueue,
           availableFolders, updateButtonTimeout, statusBar, listView,
           downloadAllDisabled, visible, dragListeners, detached,
           scans, cancelRequests, activeDownloads, deferLog>>
gvars == <<graph, dirty>>
evars == <<backend, showCount, lastCall>>
cvars == <<escaped, graph0, corrections, corrPc>>
wvars == <<wsMissingModels, wsDownloadAllDisabled, wsStatus, wsVisible, batch,
           posts, websocket, sockets, reconnectTimers, closeCount, timerAttempts>>
vars == <<dvars, gvars, evars, cvars, wvars>>

(***************************************************************************)
(* Bounds                                                                  *)
(***************************************************************************)
MaxCorrections == 2    \* longest correction list handed to applyCorrectionsToGraph
MaxShows == 2          \* how often the dialog is opened in one behaviour
MaxInFlight == 2       \* status responses of one poll in flight at once
MaxQueue == 3          \* deferred DOM updates in one freeze
MaxSockets == 4        \* WebSocket objects created in one behaviour

(***************************************************************************)
(* The host graph.  A JavaScript array that is absent and one that is      *)
(* empty behave alike in applyCorrectionsToGraph (every index reads        *)
(* undefined), so an absent widgets_values / widgets / properties.models   *)
(* is the empty sequence.  JavaScript index k is position k + 1.           *)
(***************************************************************************)
Paths == {"old", "p1", "p2"}
NewPaths == {"p1", "p2"}
NodeIds == {1, 2}          \* ids of the nodes of the graph
CorrectionNodeIds == {1, 2, 9}   \* 9 is the id of no node

Node(wv, w, pm) == [widgets_values |-> wv, widgets |-> w, models |-> pm]

\* node 1 varies in which of its arrays exist; node 2 has all three
GraphChoices ==
    { [id \in NodeIds |->
          IF id = 1 THEN Node(wv, w, pm)
                    ELSE Node(<<"old">>, <<"old">>, <<"old">>)] :
      wv \in {<<>>, <<"old">>}, w \in {<<>>, <<"old">>}, pm \in {<<>>, <<"old">>} }

\* a correction of the backend; a missing widget_index / property_index is a
\* missing field of the record
CorrectionChoices ==
    { [node_id |-> n, correction_type |-> "widget", new_path |-> p] :
          n \in CorrectionNodeIds, p \in NewPaths }
    \cup { [node_id |-> n, correction_type |-> "widget", widget_index |-> i, new_path |-> p] :
          n \in CorrectionNodeIds, i \in 0..1, p \in NewPaths }
    \cup { [node_id |-> n, correction_type |-> "property", new_path |-> p] :
          n \in CorrectionNodeIds, p \in NewPaths }
    \cup { [node_id |-> n, correction_type |-> "property", property_index |-> i, new_path |-> p] :
          n \in CorrectionNodeIds, i \in 0..1, p \in NewPaths }
    \cup { [node_id |-> n, correction_type |-> "other", new_path |-> p] :
          n \in CorrectionNodeIds, p \in NewPaths }

CorrectionLists == UNION { [1..k -> CorrectionChoices] : k \in 0..MaxCorrections }

Has(c, f) == f \in DOMAIN c          \* c.f !== undefined

(***************************************************************************)
(* applyCorrectionsToGraph                                                 *)
(***************************************************************************)
\* the outcome of one iteration of the for loop
Step(g, n, t) == [graph |-> g, applied |-> n, threw |-> t]

\* lines 428-447: a correction of type "widget" on an existing node
ApplyWidgetCorrection(g, c) ==
    IF ~Has(c, "widget_index")
    THEN Step(g, 0, FALSE)                                        \* continue
    ELSE LET node == g[c.node_id]
             k == c.widget_index + 1
             hasValue == k \in DOMAIN node.widgets_values
             hasWidget == k \in DOMAIN node.widgets
             n1 == IF hasValue
                   THEN [node EXCEPT !.widgets_values[k] = c.new_path]
                   ELSE node
             n2 == IF hasWidget
                   THEN [n1 EXCEPT !.widgets[k] = c.new_path]
                   ELSE n1
         IN  Step([g EXCEPT ![c.node_id] = n2], IF hasValue THEN 1 ELSE 0, FALSE)

\* the mutant: the property correction writes the first entry whatever
\* property_index is
ApplyPropertyCorrectionFirstEntry(g, c) ==
    IF ~Has(c, "property_index")
    THEN Step(g, 0, FALSE)
    ELSE IF 1 \in DOMAIN g[c.node_id].models
         THEN Step([g EXCEPT ![c.node_id].models[1] = c.new_path], 1, FALSE)
         ELSE Step(g, 0, FALSE)

\* lines 449-463: a correction of type "property" on an existing node
ApplyPropertyCorrection(g, c) ==
    IF ~Has(c, "property_index")
    THEN Step(g, 0, FALSE)                                        \* continue
    ELSE LET node == g[c.node_id]
             k == c.property_index + 1
         IN  IF k \in DOMAIN node.models
             THEN Step([g EXCEPT ![c.node_id].models[k] = c.new_path], 1, FALSE)
             ELSE Step(g, 0, FALSE)

\* the mutant: the node is used without the check of line 421, and reading
\* node.type of undefined throws
ApplyCorrectionNoNodeCheck(g, c) ==
    IF c.node_id \notin DOMAIN g
    THEN Step(g, 0, TRUE)
    ELSE IF c.correction_type = "widget" THEN ApplyWidgetCorrection(g, c)
    ELSE IF c.correction_type = "property" THEN ApplyPropertyCorrection(g, c)
    ELSE Step(g, 0, FALSE)

\* lines 417-464: the body of the for loop
ApplyCorrection(g, c) ==
    IF c.node_id \notin DOMAIN g
    THEN Step(g, 0, FALSE)                                        \* continue
    ELSE IF c.correction_type = "widget" THEN ApplyWidgetCorrection(g, c)
    ELSE IF c.correction_type = "property" THEN ApplyPropertyCorrection(g, c)
    ELSE Step(g, 0, FALSE)

\* the for loop from correction i on; an exception ends it
RECURSIVE CorrectionLoop(_, _, _, _)
CorrectionLoop(g, cs, i, n) ==
    IF i > Len(cs)
    THEN Step(g, n, FALSE)
    ELSE LET s == ApplyCorrection(g, cs[i])
         IN  IF s.threw
             THEN Step(s.graph, n, TRUE)
             ELSE CorrectionLoop(s.graph, cs, i + 1, n + s.applied)

\* lines 412-478: the try block, the marking of the graph and the catch that
\* swallows every exception
ApplyCorrectionsToGraph(g, cs) ==
    LET r == CorrectionLoop(g, cs, 1, 0)
    IN  [graph |-> r.graph,
         dirty |-> (~r.threw /\ r.applied > 0),
         escaped |-> FALSE]

(***************************************************************************)
(* The dialog: model objects, cards and deferred updates                   *)
(***************************************************************************)
Names == {"a", "b"}

\* model.url: "" stands for undefined, null and the empty string, " " for a
\* string of white space only, "u" for a download URL
Trim(u) == IF u = " " THEN "" ELSE u
\* m.url && m.url.trim() !== ''
HasUrl(m) == m.url # "" /\ Trim(m.url) # ""

Terminal == {"completed", "error", "cancelled"}
Statuses == {"downloading"} \cup Terminal

\* the progress statuses of status responses under way, with their numbers
NoResponses == [s \in Statuses |-> 0]
Count(b) == b["downloading"] + b["completed"] + b["error"] + b["cancelled"]

\* a model object of a scan response, without a card yet.  req is the
\* download request under way for this object, polling the setInterval of
\* its latest pollEndpoint, inflight the status responses under way for it.
ModelObject(name, url, needsFolder, suggestions) ==
    [name |-> name, url |-> url, needs_folder_selection |-> needsFolder,
     suggestions |-> suggestions,
     rendered |-> FALSE, text |-> "", disabled |-> FALSE, status |-> "",
     bar |-> "hidden", folderSelect |-> FALSE,
     folder |-> IF needsFolder THEN "" ELSE "checkpoints", selected |-> "",
     req |-> FALSE, polling |-> "none", inflight |-> NoResponses,
     terminalSeen |-> FALSE]

\* node linkage of a model (node_id, correction_type, index, related_usages);
\* a usage without node_id has node_id null
RelatedUsages(name) ==
    IF name = "a"
    THEN <<>>
    ELSE <<[node_id |-> 2, correction_type |-> "property", property_index |-> 0],
           [correction_type |-> "widget", widget_index |-> 0]>>

\* _buildUsageMetadataFromModel: the node linkage of the model itself
BuildUsageMetadataFromModel(name) ==
    IF name = "a"
    THEN [node_id |-> 1, correction_type |-> "widget", widget_index |-> 0]
    ELSE [node_id |-> 2, correction_type |-> "property", property_index |-> 0]

\* usageList of downloadModel
UsageList(own, related) == IF related # <<>> THEN related ELSE <<own>>

UsagesOf(name) == UsageList(BuildUsageMetadataFromModel(name), RelatedUsages(name))

\* the graph the dialog of Spec works on
DialogGraph == [id \in NodeIds |-> Node(<<"old">>, <<"old">>, <<"old">>)]

\* the scan responses of the backend (status success): nothing missing but
\* a corrected and an unknown model; a model that needs both a suggested
\* match and a destination folder; a model whose URL is blank
ScanResults ==
    { [missing_models |-> <<>>,
       not_found_models |-> <<"n">>,
       corrected_models |->
           <<[node_id |-> 2, correction_type |-> "widget", widget_index |-> 0,
              new_path |-> "p2"]>>],
      [missing_models |-> <<ModelObject("a", "", TRUE, TRUE)>>,
       not_found_models |-> <<>>,
       corrected_models |-> <<>>],
      [missing_models |-> <<ModelObject("b", " ", FALSE, FALSE)>>,
       not_found_models |-> <<>>,
       corrected_models |-> <<>>] }

\* a deferred DOM update: the closure handed to scheduleDomUpdate
Update(fn, msg) == [fn |-> fn, msg |-> msg, name |-> "", target |-> 0, progress |-> ""]
ProgressUpdate(name, target, progress) ==
    [fn |-> "applyProgressUpdate", msg |-> "", name |-> name, target |-> target,
     progress |-> progress]

\* requests and polls of the model objects of name n that left missingModels
NoDetached == [req |-> FALSE, polling |-> FALSE]

\* the dialog as one record, for the handlers below
D == [missingModels |-> missingModels, notFoundModels |-> notFoundModels,
      correctedModels |-> correctedModels, downloadingModels |-> downloadingModels,
      pendingProgressUpdates |-> pendingProgressUpdates, uiFrozen |-> uiFrozen,
      isMouseDown |-> isMouseDown, domUpdateQueue |-> domUpdateQueue,
      availableFolders |-> availableFolders,
      updateButtonTimeout |-> updateButtonTimeout, statusBar |-> statusBar,
      listView |-> listView, downloadAllDisabled |-> downloadAllDisabled,
      visible |-> visible, dragListeners |-> dragListeners, detached |-> detached,
      scans |-> scans,
      cancelRequests |-> cancelRequests, graph |-> graph, dirty |-> dirty,
      activeDownloads |-> activeDownloads, deferLog |-> deferLog]

Becomes(d) ==
    /\ missingModels' = d.missingModels
    /\ notFoundModels' = d.notFoundModels
    /\ correctedModels' = d.correctedModels
    /\ downloadingModels' = d.downloadingModels
    /\ pendingProgressUpdates' = d.pendingProgressUpdates
    /\ uiFrozen' = d.uiFrozen
    /\ isMouseDown' = d.isMouseDown
    /\ domUpdateQueue' = d.domUpdateQueue
    /\ availableFolders' = d.availableFolders
    /\ updateButtonTimeout' = d.updateButtonTimeout
    /\ statusBar' = d.statusBar
    /\ listView' = d.listView
    /\ downloadAllDisabled' = d.downloadAllDisabled
    /\ visible' = d.visible
    /\ dragListeners' = d.dragListeners
    /\ detached' = d.detached
    /\ scans' = d.scans
    /\ cancelRequests' = d.cancelRequests
    /\ graph' = d.graph
    /\ dirty' = d.dirty
    /\ activeDownloads' = d.activeDownloads
    /\ deferLog' = d.deferLog

\* constructor and createContent: the dialog after construction
DialogInit ==
    /\ missingModels = <<>>
    /\ notFoundModels = <<>>
    /\ correctedModels = <<>>
    /\ downloadingModels = {}
    /\ pendingProgressUpdates = <<>>
    /\ uiFrozen = FALSE
    /\ isMouseDown = FALSE
    /\ domUpdateQueue = <<>>
    /\ availableFolders = <<>>
    /\ updateButtonTimeout = FALSE
    /\ statusBar = "Scanning workflow for missing models..."
    /\ listView = "No models scanned yet"
    /\ downloadAllDisabled = FALSE
    /\ visible = FALSE
    /\ dragListeners = TRUE
    /\ detached = [n \in Names |-> NoDetached]
    /\ scans = <<>>
    /\ cancelRequests = {}
    /\ activeDownloads = [n \in Names |-> "none"]
    /\ deferLog = <<>>

(***************************************************************************)
(* freezeUI, unfreezeUI, scheduleDomUpdate and the updates they defer      *)
(***************************************************************************)
\* updateDownloadAllButtonState: (re)arms the 100 ms debounce timer
UpdateDownloadAllButtonState(d) == [d EXCEPT !.updateButtonTimeout = TRUE]

\* the filter of _updateDownloadAllButtonStateImmediate
HasModelsToDownload(d) ==
    \E i \in DOMAIN d.missingModels :
        LET m == d.missingModels[i]
            notDownloading == m.name \notin d.downloadingModels
            notCompleted == ~m.rendered \/ m.text # "Completed"
        IN  HasUrl(m) /\ (notDownloading \/ notCompleted)

\* updateDownloadButtonState of createModelCard
UpdateDownloadButtonState(m) ==
    LET canDownload == HasUrl(m) /\ ~m.needs_folder_selection
    IN  [m EXCEPT !.disabled = ~canDownload,
                  !.text = IF HasUrl(m) THEN "Download"
                           ELSE IF m.suggestions THEN "Select Match" ELSE "No URL"]

\* createModelCard: a fresh button, progress bar and status text for m
CreateModelCard(d, m) ==
    UpdateDownloadButtonState(
        [m EXCEPT !.rendered = TRUE, !.status = "", !.bar = "hidden",
                  !.folderSelect = (m.needs_folder_selection /\ d.availableFolders # <<>>),
                  !.selected = ""])

\* the closure of displayModels
DisplayModelsNow(d) ==
    LET hasAnyModels == \/ d.missingModels # <<>>
                        \/ d.notFoundModels # <<>>
                        \/ d.correctedModels # <<>>
    IN  UpdateDownloadAllButtonState(
            [d EXCEPT !.listView = IF hasAnyModels THEN "models"
                                   ELSE "No missing models found",
                      !.missingModels = [i \in DOMAIN d.missingModels |->
                                            CreateModelCard(d, d.missingModels[i])]])

\* the closure of applyProgressUpdate on a model object that is no longer in
\* missingModels: its card is out of the document, what remains is
\* downloadingModels and the Download All debounce
ApplyProgressDetached(d, name, progress) ==
    IF progress \in Terminal
    THEN UpdateDownloadAllButtonState(
             [d EXCEPT !.downloadingModels = @ \ {name}])
    ELSE d

\* the mutant: a terminal status that unlocks every model name
ApplyTerminalNowUnlockingAll(d, i, progress) ==
    UpdateDownloadAllButtonState(
        [d EXCEPT !.downloadingModels = {},
                  !.missingModels[i].text = "Completed"])

\* the branches of applyProgressUpdate for completed, error and cancelled
ApplyTerminalNow(d, i, progress) ==
    LET m == d.missingModels[i]
        idle == IF m.bar = "hidden" THEN "hidden" ELSE "shown"
        d1 == [d EXCEPT !.downloadingModels = @ \ {m.name},
                        !.missingModels[i].bar = idle]
    IN  CASE progress = "completed" ->
                UpdateDownloadAllButtonState(
                    [d1 EXCEPT !.missingModels[i].status = "Download completed!",
                               !.missingModels[i].text = "Completed"])
          [] progress = "error" ->
                UpdateDownloadAllButtonState(
                    [d1 EXCEPT !.missingModels[i].status = "Error: status",
                               !.missingModels[i].text = "Failed",
                               !.missingModels[i].disabled = TRUE])
          [] progress = "cancelled" ->
                UpdateDownloadAllButtonState(
                    [d1 EXCEPT !.missingModels[i].status = "Download cancelled",
                               !.missingModels[i].text = "Download",
                               !.missingModels[i].disabled = FALSE])
          [] OTHER -> d

\* the closure of applyProgressUpdate on model object i of missingModels
ApplyProgressNow(d, i, progress) ==
    IF progress = "downloading"
    THEN [d EXCEPT !.missingModels[i].status = "Downloading",
                   !.missingModels[i].bar = "pulsing"]
    ELSE ApplyTerminalNow(d, i, progress)

\* runs one DOM update closure
RunUpdate(d, u) ==
    CASE u.fn = "updateStatus" -> [d EXCEPT !.statusBar = u.msg]
      [] u.fn = "displayModels" -> DisplayModelsNow(d)
      [] u.fn = "updateDownloadAllButton" ->
            [d EXCEPT !.downloadAllDisabled = ~HasModelsToDownload(d)]
      [] u.fn = "showScanProgress" -> [d EXCEPT !.listView = "Scanning workflow..."]
      [] u.fn = "updateScanProgress" ->
            IF d.listView = "Scanning workflow..."
            THEN [d EXCEPT !.listView = "Scanning workflow... (progress)"]
            ELSE d
      [] u.fn = "applyProgressUpdate" ->
            IF u.target = 0
            THEN ApplyProgressDetached(d, u.name, u.progress)
            ELSE ApplyProgressNow(d, u.target, u.progress)
      [] OTHER -> d

\* scheduleDomUpdate; deferLog records the deferred update
ScheduleDomUpdate(d, u) ==
    IF d.uiFrozen
    THEN [d EXCEPT !.domUpdateQueue = Append(@, u), !.deferLog = Append(@, u)]
    ELSE RunUpdate(d, u)

UpdateStatus(d, msg) == ScheduleDomUpdate(d, Update("updateStatus", msg))
DisplayModels(d) == ScheduleDomUpdate(d, Update("displayModels", ""))
ShowScanProgress(d) == ScheduleDomUpdate(d, Update("showScanProgress", ""))
UpdateScanProgress(d) == ScheduleDomUpdate(d, Update("updateScanProgress", ""))
UpdateDownloadAllButtonStateImmediate(d) ==
    ScheduleDomUpdate(d, Update("updateDownloadAllButton", ""))
ApplyProgressUpdate(d, name, target, progress) ==
    ScheduleDomUpdate(d, ProgressUpdate(name, target, progress))

\* Map.set: an existing key keeps its place, a new key goes last
MapSet(map, e) ==
    IF \E k \in DOMAIN map : map[k].name = e.name
    THEN [k \in DOMAIN map |-> IF map[k].name = e.name THEN e ELSE map[k]]
    ELSE Append(map, e)

MapDelete(map, name) ==
    LET Keep(e) == e.name # name IN SelectSeq(map, Keep)

\* runs the closures of us in order
RECURSIVE RunAll(_, _, _)
RunAll(d, us, k) ==
    IF k > Len(us) THEN d ELSE RunAll(RunUpdate(d, us[k]), us, k + 1)

\* the mutant: the queued DOM updates are applied before the pending
\* progress updates
FlushOrderQueueFirst(d) == d.domUpdateQueue \o d.pendingProgressUpdates

\* the closures unfreezeUI runs, in the order in which it runs them:
\* flushPendingProgressUpdates first, flushDomUpdateQueue second
FlushOrder(d) == d.pendingProgressUpdates \o d.domUpdateQueue

\* unfreezeUI with flushPendingProgressUpdates and flushDomUpdateQueue
UnfreezeUI(d) ==
    IF d.isMouseDown \/ ~d.uiFrozen
    THEN d
    ELSE RunAll([d EXCEPT !.uiFrozen = FALSE,
                          !.pendingProgressUpdates = <<>>,
                          !.domUpdateQueue = <<>>,
                          !.deferLog = <<>>],
                FlushOrder(d), 1)

\* freezeUI
FreezeUI(d) == [d EXCEPT !.uiFrozen = TRUE]

\* this.mouseDownHandler and this.mouseUpHandler of createContent
MouseDownHandler(d) == FreezeUI([d EXCEPT !.isMouseDown = TRUE])
MouseUpHandler(d) == UnfreezeUI([d EXCEPT !.isMouseDown = FALSE])

(***************************************************************************)
(* downloadModel, pollProgress, downloadAllModels, scanWorkflow, show,     *)
(* close                                                                   *)
(***************************************************************************)
\* one more download of a name is under way
OneMore(a) == IF a = "none" THEN "one" ELSE "several"

\* the mutant: downloadModel without its guard on downloadingModels
DownloadModelUnguarded(d, i) ==
    LET m == d.missingModels[i]
    IN  [d EXCEPT !.downloadingModels = @ \cup {m.name},
                  !.missingModels[i].disabled = TRUE,
                  !.missingModels[i].text = "Downloading...",
                  !.missingModels[i].bar = "shown",
                  !.missingModels[i].status = "Starting download...",
                  !.missingModels[i].req = TRUE,
                  !.activeDownloads[m.name] = OneMore(@)]

\* the body of the POST /download-missing/download for model object m
RequestBody(m) ==
    [model_name |-> m.name, model_url |-> m.url, model_folder |-> m.folder]

\* downloadModel up to its first await: the guard, the lock, the card and
\* the POST /download-missing/download
DownloadModel(d, i) ==
    LET m == d.missingModels[i]
    IN  IF m.name \in d.downloadingModels
        THEN d
        ELSE [d EXCEPT !.downloadingModels = @ \cup {m.name},
                       !.missingModels[i].disabled = TRUE,
                       !.missingModels[i].text = "Downloading...",
                       !.missingModels[i].bar = "shown",
                       !.missingModels[i].status = "Starting download...",
                       !.missingModels[i].req = TRUE,
                       !.activeDownloads[m.name] = OneMore(@)]

\* the onClick of the card's button
ClickHandler(d, i) ==
    IF HasUrl(d.missingModels[i]) THEN DownloadModel(d, i) ELSE d

\* the corrections downloadModel builds from the usages of a model
CorrectionFor(u, newPath) ==
    IF Has(u, "widget_index")
    THEN [node_id |-> u.node_id, correction_type |-> u.correction_type,
          widget_index |-> u.widget_index, new_path |-> newPath]
    ELSE [node_id |-> u.node_id, correction_type |-> u.correction_type,
          property_index |-> u.property_index, new_path |-> newPath]

\* the mutant: only the first usage with a node gets a correction
CorrectionsFromFirstOnly(usageList, newPath) ==
    LET HasNode(u) == Has(u, "node_id")
        us == SelectSeq(usageList, HasNode)
    IN  IF us = <<>> THEN <<>> ELSE <<CorrectionFor(us[1], newPath)>>

\* corrections of downloadModel: the filter on node_id and the map
CorrectionsFrom(usageList, newPath) ==
    LET HasNode(u) == Has(u, "node_id")
        us == SelectSeq(usageList, HasNode)
    IN  [k \in DOMAIN us |-> CorrectionFor(us[k], newPath)]

UsageCorrections(name, newPath) == CorrectionsFrom(UsagesOf(name), newPath)

\* applyCorrectionsToGraph on the graph of the dialog
ApplyCorrections(d, cs) ==
    LET r == ApplyCorrectionsToGraph(d.graph, cs)
    IN  [d EXCEPT !.graph = r.graph, !.dirty = @ \/ r.dirty]

\* downloadModel after the response: result.correction, then pollProgress
\* for a model whose usageList is given
DownloadAcceptedWith(d, i, withCorrection, usageList) ==
    LET cs == CorrectionsFrom(usageList, "p1")
        d1 == IF withCorrection /\ cs # <<>> THEN ApplyCorrections(d, cs) ELSE d
    IN  [d1 EXCEPT !.missingModels[i].req = FALSE,
                   !.missingModels[i].polling = "on",
                   !.missingModels[i].terminalSeen = FALSE]

DownloadAccepted(d, i, withCorrection) ==
    DownloadAcceptedWith(d, i, withCorrection, UsagesOf(d.missingModels[i].name))

\* the mutant: a catch of downloadModel that sends the request again
DownloadFailedResending(d, i) ==
    LET m == d.missingModels[i]
    IN  [d EXCEPT !.missingModels[i].status = "Error: request",
                  !.activeDownloads[m.name] = OneMore(@)]

\* the catch of downloadModel: the request failed
DownloadFailed(d, i) ==
    LET m == d.missingModels[i]
    IN  [d EXCEPT !.downloadingModels = @ \ {m.name},
                  !.missingModels[i].req = FALSE,
                  !.missingModels[i].status = "Error: request",
                  !.missingModels[i].text = "Retry",
                  !.missingModels[i].disabled = FALSE,
                  !.activeDownloads[m.name] = "none"]

\* the onUpdate callback of pollProgress for a status response; target 0 is
\* a model object that is no longer in missingModels; latest: the response
\* reports on the latest download request of the model object
OnStatusResponse(d, name, target, progress, latest) ==
    LET u == ProgressUpdate(name, target, progress)
        Others(e) == ~(e.fn = "applyProgressUpdate" /\ e.name = name)
        d1 == IF latest /\ progress \in Terminal
              THEN [d EXCEPT !.activeDownloads[name] = "none"]
              ELSE d
    IN  IF d1.uiFrozen
        THEN [d1 EXCEPT !.pendingProgressUpdates = MapSet(@, u),
                        !.deferLog = Append(SelectSeq(@, Others), u)]
        ELSE ApplyProgressUpdate(
                 [d1 EXCEPT !.pendingProgressUpdates = MapDelete(@, name)],
                 name, target, progress)

\* downloadAllModels calls downloadModel for the models of chosen, in the
\* order of missingModels
RECURSIVE DownloadEach(_, _, _)
DownloadEach(d, chosen, k) ==
    IF k > Len(d.missingModels)
    THEN d
    ELSE DownloadEach(IF k \in chosen THEN DownloadModel(d, k) ELSE d, chosen, k + 1)

\* the mutant: downloadAllModels without the filter on the buttons
DownloadAllModelsAnyButton(d) ==
    LET ms == d.missingModels
        withUrl == {k \in DOMAIN ms : HasUrl(ms[k])}
    IN  IF withUrl = {}
        THEN UpdateStatus(d, "No models with URLs to download")
        ELSE DownloadEach(UpdateStatus(d, "Starting download(s)..."), withUrl, 1)

\* downloadAllModels: the models with a URL and an enabled button are
\* chosen before the first call of downloadModel
DownloadAllModels(d) ==
    LET ms == d.missingModels
        withUrl == {k \in DOMAIN ms : HasUrl(ms[k])}
        chosen == {k \in withUrl : ms[k].rendered /\ ~ms[k].disabled}
    IN  IF withUrl = {}
        THEN UpdateStatus(d, "No models with URLs to download")
        ELSE DownloadEach(UpdateStatus(d, "Starting download(s)..."), chosen, 1)

\* the folder select's onchange
\* the mutant: an onchange that enables the download and leaves model.folder
FolderOnChangeKeepingFolder(d, i, selectedFolder) ==
    UpdateDownloadAllButtonState(
        [d EXCEPT !.missingModels[i] =
            UpdateDownloadButtonState([@ EXCEPT !.selected = selectedFolder,
                                                !.needs_folder_selection = FALSE])])

\* the onchange of the folder select of a card; selected is the value of the
\* select element
FolderOnChange(d, i, selectedFolder) ==
    UpdateDownloadAllButtonState(
        [d EXCEPT !.missingModels[i] =
            UpdateDownloadButtonState([@ EXCEPT !.selected = selectedFolder,
                                                !.folder = selectedFolder,
                                                !.needs_folder_selection = FALSE])])

\* applySelection of createSuggestionSelector with the card's onChange
ApplySelection(d, i, url) ==
    UpdateDownloadAllButtonState(
        [d EXCEPT !.missingModels[i] = UpdateDownloadButtonState([@ EXCEPT !.url = url])])

\* the model objects of missingModels leave the dialog: their requests and
\* polls go on, their cards are out of the document
DetachOne(det, m) ==
    [req |-> det.req \/ m.req,
     polling |-> det.polling \/ m.polling = "on"]

RECURSIVE DetachFrom(_, _, _)
DetachFrom(det, ms, k) ==
    IF k > Len(ms)
    THEN det
    ELSE DetachFrom([det EXCEPT ![ms[k].name] = DetachOne(@, ms[k])], ms, k + 1)

Detach(d) ==
    [d EXCEPT !.detached = DetachFrom(@, d.missingModels, 1),
              !.missingModels = <<>>,
              !.pendingProgressUpdates =
                  [k \in DOMAIN @ |-> [@[k] EXCEPT !.target = 0]],
              !.deferLog =
                  [k \in DOMAIN @ |-> [@[k] EXCEPT !.target = 0]]]

\* show up to its first await
Show(d) ==
    LET d1 == Detach(d)
    IN  UpdateStatus([d1 EXCEPT !.notFoundModels = <<>>,
                                !.correctedModels = <<>>,
                                !.downloadingModels = {},
                                !.pendingProgressUpdates = <<>>,
                                !.domUpdateQueue = <<>>,
                                !.deferLog = <<>>,
                                !.uiFrozen = FALSE,
                                !.isMouseDown = FALSE,
                                !.listView = "",
                                !.visible = TRUE,
                                !.scans = Append(@, "folders")],
                     "Initializing...")

\* the mutant: a loadAvailableFolders that forgets the folders on failure
FoldersLoadedForgetting(d, k, ok) ==
    ShowScanProgress([d EXCEPT !.availableFolders = IF ok THEN <<"f", "g">> ELSE <<>>,
                               !.scans[k] = "scanning"])

\* loadAvailableFolders after the response, then scanWorkflow up to its
\* first await
FoldersLoaded(d, k, ok) ==
    ShowScanProgress([d EXCEPT !.availableFolders = IF ok THEN <<"f", "g">> ELSE @,
                               !.scans[k] = "scanning"])

\* the mutant: a scanWorkflow that leaves the corrections to the user
ScanSucceededNotApplying(d, k, r) ==
    LET d1 == [Detach(d) EXCEPT !.scans[k] = "done",
                                !.missingModels = r.missing_models,
                                !.notFoundModels = r.not_found_models,
                                !.correctedModels = r.corrected_models]
    IN  UpdateStatus(DisplayModels(d1), "scan summary")

\* scanWorkflow after a response with status success
ScanSucceeded(d, k, r) ==
    LET d1 == [Detach(d) EXCEPT !.scans[k] = "done",
                                !.missingModels = r.missing_models,
                                !.notFoundModels = r.not_found_models,
                                !.correctedModels = r.corrected_models]
        d2 == IF r.corrected_models # <<>>
              THEN ApplyCorrections(d1, r.corrected_models)
              ELSE d1
        none == r.missing_models = <<>> /\ r.not_found_models = <<>>
                /\ r.corrected_models = <<>>
    IN  UpdateStatus(DisplayModels(d2),
                     IF none THEN "No missing models found! All models are installed."
                     ELSE "scan summary")

\* the catch of scanWorkflow: the scan answered without success (the
\* scan-progress poll is stopped) or the request threw (it is not)
ScanFailed(d, k, thrown) ==
    UpdateStatus([d EXCEPT !.scans[k] = IF thrown THEN "failed" ELSE "done"],
                 "Error scanning workflow")

\* the forEach of close: how many POST /download-missing/cancel it sends
\* for each model name
CancelsOf(d) == [n \in Names |-> IF n \in d.downloadingModels THEN 1 ELSE 0]

\* the mutant: a close that leaves downloadingModels as it is
CloseKeepingNames(d) ==
    [d EXCEPT !.visible = FALSE,
              !.dragListeners = FALSE,
              !.uiFrozen = FALSE,
              !.isMouseDown = FALSE,
              !.pendingProgressUpdates = <<>>,
              !.domUpdateQueue = <<>>,
              !.deferLog = <<>>,
              !.cancelRequests = @ \cup {n \in Names : CancelsOf(d)[n] > 0}]

\* close
Close(d) ==
    [d EXCEPT !.visible = FALSE,
              !.dragListeners = FALSE,
              !.uiFrozen = FALSE,
              !.isMouseDown = FALSE,
              !.pendingProgressUpdates = <<>>,
              !.domUpdateQueue = <<>>,
              !.deferLog = <<>>,
              !.cancelRequests = @ \cup {n \in Names : CancelsOf(d)[n] > 0},
              !.activeDownloads =
                  [n \in Names |-> IF n \in d.downloadingModels THEN "none" ELSE @[n]],
              !.downloadingModels = {}]

(***************************************************************************)
(* The dialog with the progress socket (the third MissingModelsDialog of   *)
(* web/missing-models.js): setupWebSocket, show, close, analyzeWorkflow,   *)
(* downloadModel and downloadAllMissing                                    *)
(***************************************************************************)
\* the delay of the reconnect timer, in milliseconds
ReconnectDelay == 5000

\* result.missing_models of /missing-models/analyze, by model name
AnalyzeResults == {<<>>, <<"a">>, <<"a", "b">>, <<"a", "b", "c">>}

\* what a download request comes back with: an OK response that is not
\* queued, an OK response with status queued, a non-OK response or exception
DownloadOutcomes == {"started", "queued", "failed"}

\* no downloadAllMissing call is under way
\* list0 and intact are history: the list the call started on, and whether
\* only the call itself has changed this.missingModels since
\* succeeded and failed are history too: the requests of the call that were
\* answered with a started download, and those that failed
NoBatch == [pc |-> "idle", i |-> 0, completedCount |-> 0, failedCount |-> 0,
            list0 |-> <<>>, intact |-> TRUE, succeeded |-> 0, failed |-> 0]

\* the dialog as one record, for the handlers below
W == [missingModels |-> wsMissingModels, downloadAllDisabled |-> wsDownloadAllDisabled,
      status |-> wsStatus, visible |-> wsVisible, batch |-> batch, posts |-> posts,
      websocket |-> websocket, sockets |-> sockets,
      reconnectTimers |-> reconnectTimers, closeCount |-> closeCount,
      timerAttempts |-> timerAttempts]

WBecomes(w) ==
    /\ wsMissingModels' = w.missingModels
    /\ wsDownloadAllDisabled' = w.downloadAllDisabled
    /\ wsStatus' = w.status
    /\ wsVisible' = w.visible
    /\ batch' = w.batch
    /\ posts' = w.posts
    /\ websocket' = w.websocket
    /\ sockets' = w.sockets
    /\ reconnectTimers' = w.reconnectTimers
    /\ closeCount' = w.closeCount
    /\ timerAttempts' = w.timerAttempts

\* setupWebSocket: a new WebSocket replaces this.websocket; the socket it
\* replaces keeps its handlers
SetupWebSocket(w) ==
    [w EXCEPT !.sockets = Append(@, "connecting"),
              !.websocket = Len(w.sockets) + 1]

\* the mutant: an onclose that arms no timer
OnCloseNoTimer(w) == [w EXCEPT !.closeCount = @ + 1]

\* websocket.onclose: setTimeout(() => this.setupWebSocket(), 5000)
OnClose(w) ==
    [w EXCEPT !.reconnectTimers = Append(@, ReconnectDelay), !.closeCount = @ + 1]

\* the callback of that setTimeout
OnReconnectTimer(w) ==
    SetupWebSocket([w EXCEPT !.reconnectTimers = Tail(@), !.timerAttempts = @ + 1])

\* constructor and createContent of the dialog with the progress socket
SocketDialogInit ==
    /\ wsMissingModels = <<>>
    /\ wsDownloadAllDisabled = TRUE
    /\ wsStatus = ""
    /\ wsVisible = FALSE
    /\ batch = NoBatch
    /\ posts = <<>>
    /\ websocket = 1
    /\ sockets = <<"connecting">>
    /\ reconnectTimers = <<>>
    /\ closeCount = 0
    /\ timerAttempts = 0

\* show of the dialog with the progress socket
SocketDialogShow(w) ==
    LET w1 == [w EXCEPT !.visible = TRUE,
                        !.missingModels = <<>>,
                        !.batch.intact = FALSE,
                        !.status = "Ready to analyze workflow",
                        !.downloadAllDisabled = TRUE]
    IN  IF w.websocket = 0 \/ w.sockets[w.websocket] # "open"
        THEN SetupWebSocket(w1)
        ELSE w1

\* close of the dialog with the progress socket
SocketDialogClose(w) ==
    [w EXCEPT !.visible = FALSE,
              !.sockets = IF w.websocket # 0 /\ w.sockets[w.websocket] = "open"
                          THEN [@ EXCEPT ![w.websocket] = "closing"]
                          ELSE @]

\* analyzeWorkflow after an OK response
AnalyzeResponded(w, list) ==
    IF list # <<>>
    THEN [w EXCEPT !.missingModels = list,
                   !.batch.intact = FALSE,
                   !.status = "Found missing models",
                   !.downloadAllDisabled = FALSE]
    ELSE [w EXCEPT !.missingModels = list,
                   !.batch.intact = FALSE,
                   !.status = "No missing models found! All required models are installed.",
                   !.downloadAllDisabled = TRUE]

\* analyzeWorkflow after a non-OK response or an exception
AnalyzeFailed(w) == [w EXCEPT !.status = "Error"]

\* the loop head of downloadAllMissing: the test i < this.missingModels.length
\* and, when it holds, downloadModel(this.missingModels[i]) up to its await
\* (i counts from 1 here)
BatchIterate(w) ==
    IF w.batch.i <= Len(w.missingModels)
    THEN [w EXCEPT !.status = "Requesting download",
                   !.posts = Append(@, w.missingModels[w.batch.i]),
                   !.batch.pc = "request"]
    ELSE [w EXCEPT !.status = "Batch download complete",
                   !.batch.pc = "done"]

\* downloadAllMissing up to its first await
DownloadAllMissing(w) ==
    IF w.missingModels = <<>>
    THEN [w EXCEPT !.status = "No missing models to download"]
    ELSE BatchIterate([w EXCEPT !.downloadAllDisabled = TRUE,
                                !.posts = <<>>,
                                !.batch = [NoBatch EXCEPT !.i = 1,
                                                          !.list0 = w.missingModels]])

\* downloadModel(model) of the dialog with the progress socket, after the
\* response: a started download takes the model out of this.missingModels
DownloadModelResponded(w, name, r) ==
    LET Others(n) == n # name
        rest == SelectSeq(w.missingModels, Others)
    IN  CASE r = "queued" -> w
          [] r = "started" ->
                IF rest = <<>>
                THEN [w EXCEPT !.missingModels = rest,
                               !.status = "All missing models have been downloaded!",
                               !.downloadAllDisabled = TRUE]
                ELSE [w EXCEPT !.missingModels = rest,
                               !.status = "Download completed"]
          [] OTHER -> [w EXCEPT !.status = "Error downloading"]

\* downloadAllMissing after downloadModel has returned: a queued download
\* goes on with the next index at once; every other result - downloadModel
\* catches its own errors and returns undefined - counts as completed and
\* is followed by the 500 ms pause
BatchResumed(w, r) ==
    LET w1 == DownloadModelResponded(w, w.posts[Len(w.posts)], r)
    IN  IF r = "queued"
        THEN BatchIterate([w1 EXCEPT !.batch.i = @ + 1])
        ELSE [w1 EXCEPT !.batch.completedCount = @ + 1,
                        !.batch.succeeded = IF r = "started" THEN @ + 1 ELSE @,
                        !.batch.failed = IF r = "failed" THEN @ + 1 ELSE @,
                        !.status = "Progress",
                        !.batch.pc = "delay"]

\* downloadAllMissing after the 500 ms pause
BatchDelayOver(w) == BatchIterate([w EXCEPT !.batch.i = @ + 1])

(***************************************************************************)
(* Spec: the dialog with its user, its timers and the backend              *)
(***************************************************************************)
Init ==
    /\ DialogInit
    /\ graph = DialogGraph
    /\ dirty = FALSE
    /\ backend = [n \in Names |-> "idle"]
    /\ showCount = 0
    /\ lastCall = ""
    /\ escaped = FALSE
    /\ graph0 = DialogGraph
    /\ corrections = <<>>
    /\ corrPc = "done"
    /\ SocketDialogInit

\* a handler ran and left the dialog as d; call names what it did, where a
\* claim is about it
Does(d, call) ==
    /\ Len(d.domUpdateQueue) <= MaxQueue
    /\ Becomes(d)
    /\ lastCall' = call
    /\ UNCHANGED <<cvars, wvars>>

\* the user can reach the card of model object i
CardInReach(i) ==
    /\ visible /\ ~isMouseDown
    /\ listView = "models"
    /\ missingModels[i].rendered

\* the menu button: dialog.show()
InvokeShow ==
    /\ ~isMouseDown
    /\ showCount < MaxShows
    /\ showCount' = showCount + 1
    /\ Does(Show(D), "")
    /\ UNCHANGED backend

\* the menu button, for the first time
FirstShow ==
    /\ showCount = 0
    /\ showCount' = showCount + 1
    /\ Does(Show(D), "")
    /\ UNCHANGED backend

\* the response of GET /download-missing/folders, ok or not
FoldersResponse ==
    \E k \in DOMAIN scans, ok \in BOOLEAN :
        /\ scans[k] = "folders"
        /\ Does(FoldersLoaded(D, k, ok), "")
        /\ UNCHANGED <<backend, showCount>>

\* a response of the scan-progress poll
ScanProgressResponse ==
    \E k \in DOMAIN scans :
        /\ scans[k] \in {"scanning", "failed"}
        /\ Does(UpdateScanProgress(D), "")
        /\ UNCHANGED <<backend, showCount>>

\* the response of POST /download-missing/scan with status success
ScanResponse ==
    \E k \in DOMAIN scans, r \in ScanResults :
        /\ scans[k] = "scanning"
        /\ Does(ScanSucceeded(D, k, r), "")
        /\ UNCHANGED <<backend, showCount>>

\* the scan request answers without success, or throws
ScanFailure ==
    \E k \in DOMAIN scans, thrown \in BOOLEAN :
        /\ scans[k] = "scanning"
        /\ Does(ScanFailed(D, k, thrown), "")
        /\ UNCHANGED <<backend, showCount>>

\* mousedown on the models list
MouseDown ==
    /\ visible /\ dragListeners /\ ~isMouseDown
    /\ Does(MouseDownHandler(D), "")
    /\ UNCHANGED <<backend, showCount>>

\* mouseup anywhere in the document
MouseUp ==
    /\ dragListeners /\ isMouseDown
    /\ Does(MouseUpHandler(D),
            IF pendingProgressUpdates # <<>> /\ domUpdateQueue # <<>>
            THEN "flush" ELSE "")
    /\ UNCHANGED <<backend, showCount>>

\* a click on the button of a card
Click ==
    \E i \in DOMAIN missingModels :
        /\ CardInReach(i)
        /\ ~missingModels[i].disabled
        /\ Does(ClickHandler(D, i),
                IF HasUrl(missingModels[i])
                   /\ missingModels[i].name \in downloadingModels
                THEN "guard" ELSE "")
        /\ UNCHANGED <<backend, showCount>>

\* a click on Download All
ClickDownloadAll ==
    /\ visible /\ ~isMouseDown
    /\ ~downloadAllDisabled
    /\ Does(DownloadAllModels(D), "all")
    /\ UNCHANGED <<backend, showCount>>

\* the user picks a destination folder
SelectFolder ==
    \E i \in DOMAIN missingModels :
        /\ CardInReach(i)
        /\ missingModels[i].folderSelect
        /\ Does(FolderOnChange(D, i, availableFolders[1]), "")
        /\ UNCHANGED <<backend, showCount>>

\* the user picks another destination folder of the list
SelectOtherFolder ==
    \E i \in DOMAIN missingModels, k \in DOMAIN availableFolders :
        /\ CardInReach(i)
        /\ missingModels[i].folderSelect
        /\ k > 1
        /\ Does(FolderOnChange(D, i, availableFolders[k]), "")
        /\ UNCHANGED <<backend, showCount>>

\* the user picks a suggested match
SelectSuggestion ==
    \E i \in DOMAIN missingModels :
        /\ CardInReach(i)
        /\ missingModels[i].suggestions
        /\ Does(ApplySelection(D, i, "u"), "")
        /\ UNCHANGED <<backend, showCount>>

\* the user goes back to "-- Select a suggested match --"
DeselectSuggestion ==
    \E i \in DOMAIN missingModels :
        /\ CardInReach(i)
        /\ missingModels[i].suggestions
        /\ missingModels[i].url = "u"
        /\ Does(ApplySelection(D, i, ""), "")
        /\ UNCHANGED <<backend, showCount>>

\* the 100 ms timer of updateDownloadAllButtonState fires
ButtonTimeout ==
    /\ updateButtonTimeout
    /\ Does(UpdateDownloadAllButtonStateImmediate(
                [D EXCEPT !.updateButtonTimeout = FALSE]), "")
    /\ UNCHANGED <<backend, showCount>>

\* the Close button
InvokeClose ==
    /\ visible /\ ~isMouseDown
    /\ Does(Close(D), "")
    /\ UNCHANGED <<backend, showCount>>

\* the backend accepts a download request, with or without a correction;
\* the status responses of an earlier download of the model object have
\* arrived by then
DownloadResponse ==
    \E i \in DOMAIN missingModels, withCorrection \in BOOLEAN :
        /\ missingModels[i].req
        /\ Count(missingModels[i].inflight) = 0
        /\ Does(DownloadAccepted(D, i, withCorrection), "")
        /\ backend' = [backend EXCEPT ![missingModels[i].name] = "downloading"]
        /\ UNCHANGED showCount

\* a download request fails
DownloadError ==
    \E i \in DOMAIN missingModels :
        /\ missingModels[i].req
        /\ Does(DownloadFailed(D, i), "")
        /\ UNCHANGED <<backend, showCount>>

\* a tick of the setInterval of pollEndpoint: the backend answers with the
\* state of the download, the response is under way
PollTick ==
    \E i \in DOMAIN missingModels :
        LET m == missingModels[i]
        IN  /\ m.polling = "on"
            /\ Count(m.inflight) < MaxInFlight
            /\ Does([D EXCEPT !.missingModels[i].inflight[backend[m.name]] = @ + 1], "")
            /\ UNCHANGED <<backend, showCount>>

\* a tick of pollEndpoint whose response arrives before the next tick
PollAnswer ==
    \E i \in DOMAIN missingModels :
        LET m == missingModels[i]
            s == backend[m.name]
            d1 == [D EXCEPT !.missingModels[i].polling =
                                IF s \in Terminal THEN "stopped" ELSE @,
                            !.missingModels[i].terminalSeen = @ \/ s \in Terminal]
        IN  /\ m.polling = "on"
            /\ Does(OnStatusResponse(d1, m.name, i, s, TRUE), "")
            /\ UNCHANGED <<backend, showCount>>

\* a status response of the latest poll arrives: onUpdate, then shouldStop
PollResponse ==
    \E i \in DOMAIN missingModels, s \in Statuses :
        LET m == missingModels[i]
            d1 == [D EXCEPT !.missingModels[i].inflight[s] = @ - 1,
                            !.missingModels[i].polling =
                                IF s \in Terminal /\ @ = "on" THEN "stopped" ELSE @,
                            !.missingModels[i].terminalSeen = @ \/ s \in Terminal]
        IN  /\ m.inflight[s] > 0
            /\ Does(OnStatusResponse(d1, m.name, i, s, ~m.req), "")
            /\ UNCHANGED <<backend, showCount>>

\* the status endpoint answers with an HTTP error: clearInterval, onError
PollHttpError ==
    \E i \in DOMAIN missingModels :
        /\ missingModels[i].polling = "on"
        /\ Does([D EXCEPT !.missingModels[i].polling = "stopped"], "")
        /\ UNCHANGED <<backend, showCount>>

\* the same for the model objects that are no longer in missingModels
DetachedDownloadResponse ==
    \E n \in Names, withCorrection \in BOOLEAN :
        LET cs == UsageCorrections(n, "p1")
            d1 == IF withCorrection /\ cs # <<>> THEN ApplyCorrections(D, cs) ELSE D
        IN  /\ detached[n].req
            /\ Does([d1 EXCEPT !.detached[n].req = FALSE,
                               !.detached[n].polling = TRUE], "")
            /\ backend' = [backend EXCEPT ![n] = "downloading"]
            /\ UNCHANGED showCount

DetachedDownloadError ==
    \E n \in Names :
        /\ detached[n].req
        /\ Does([D EXCEPT !.detached[n].req = FALSE,
                          !.downloadingModels = @ \ {n},
                          !.activeDownloads[n] = "none"], "")
        /\ UNCHANGED <<backend, showCount>>

DetachedPollAnswer ==
    \E n \in Names :
        LET s == backend[n]
            d1 == [D EXCEPT !.detached[n].polling = s \notin Terminal]
        IN  /\ detached[n].polling
            /\ Does(OnStatusResponse(d1, n, 0, s, TRUE), "")
            /\ UNCHANGED <<backend, showCount>>

\* the backend ends a download
BackendFinish ==
    \E n \in Names, s \in {"completed", "error"} :
        /\ backend[n] = "downloading"
        /\ backend' = [backend EXCEPT ![n] = s]
        /\ UNCHANGED <<dvars, gvars, showCount, lastCall, cvars, wvars>>

\* the backend handles POST /download-missing/cancel
BackendCancel ==
    \E n \in cancelRequests :
        /\ backend' = [backend EXCEPT ![n] = IF @ = "downloading" THEN "cancelled" ELSE @]
        /\ Does([D EXCEPT !.cancelRequests = @ \ {n}], "")
        /\ UNCHANGED showCount

\* a POST /download-missing/cancel fails: the catch of close logs it
CancelFailed ==
    \E n \in cancelRequests :
        /\ Does([D EXCEPT !.cancelRequests = @ \ {n}], "")
        /\ UNCHANGED <<backend, showCount>>

\* what the user, the timers and the backend do in both specifications
Common ==
    \/ FoldersResponse
    \/ ScanProgressResponse
    \/ ScanResponse
    \/ ScanFailure
    \/ MouseDown
    \/ MouseUp
    \/ Click
    \/ ClickDownloadAll
    \/ SelectFolder
    \/ SelectSuggestion
    \/ DeselectSuggestion
    \/ ButtonTimeout
    \/ InvokeClose
    \/ DownloadResponse
    \/ DownloadError
    \/ PollHttpError
    \/ BackendFinish
    \/ BackendCancel

\* Spec: the dialog is opened, closed and opened again; every status
\* response arrives before the next tick of its poll
Next ==
    \/ InvokeShow
    \/ Common
    \/ PollAnswer
    \/ DetachedDownloadResponse
    \/ DetachedDownloadError
    \/ DetachedPollAnswer

Spec == Init /\ [][Next]_vars

\* SpecPolling: the first session of the dialog; several status responses
\* of a poll are under way at once and arrive in any order
NextPolling ==
    \/ FirstShow
    \/ Common
    \/ PollTick
    \/ PollResponse

SpecPolling == Init /\ [][NextPolling]_vars

\* a scan response with two missing models: one that needs a suggested
\* match and a destination folder, one that is ready for download
ScanResultBoth ==
    [missing_models |-> <<ModelObject("a", "", TRUE, TRUE),
                          ModelObject("b", "u", FALSE, FALSE)>>,
     not_found_models |-> <<>>,
     corrected_models |-> <<>>]

\* the response of POST /download-missing/scan with two missing models
ScanResponseBoth ==
    \E k \in DOMAIN scans :
        /\ scans[k] = "scanning"
        /\ Does(ScanSucceeded(D, k, ScanResultBoth), "")
        /\ UNCHANGED <<backend, showCount>>

\* SpecBoth: the first session of the dialog with two missing models; every
\* status response arrives before the next tick of its poll
NextBoth ==
    \/ FirstShow
    \/ FoldersResponse
    \/ ScanResponseBoth
    \/ MouseDown
    \/ MouseUp
    \/ Click
    \/ ClickDownloadAll
    \/ SelectFolder
    \/ SelectOtherFolder
    \/ SelectSuggestion
    \/ DeselectSuggestion
    \/ ButtonTimeout
    \/ InvokeClose
    \/ DownloadResponse
    \/ DownloadError
    \/ PollAnswer
    \/ BackendFinish
    \/ BackendCancel
    \/ CancelFailed

SpecBoth == Init /\ [][NextBoth]_vars

(***************************************************************************)
(* SpecBatch and SpecSocket: the dialog with the progress socket           *)
(***************************************************************************)
\* a handler of the dialog with the progress socket ran and left it as w
WDoes(w) ==
    /\ WBecomes(w)
    /\ UNCHANGED <<dvars, gvars, evars, cvars>>

\* sockets, timers and close events to come fit into MaxSockets
RoomForSocket == Len(sockets) + Len(reconnectTimers) < MaxSockets

\* the menu button: missingModelsDialog.show()
SocketShow ==
    /\ RoomForSocket
    /\ WDoes(SocketDialogShow(W))

\* the Close button
SocketClose ==
    /\ wsVisible
    /\ WDoes(SocketDialogClose(W))

\* Analyze Workflow and its response
Analyze ==
    /\ wsVisible
    /\ \/ \E list \in AnalyzeResults : WDoes(AnalyzeResponded(W, list))
       \/ WDoes(AnalyzeFailed(W))

\* a click on Download All Missing
ClickDownloadAllMissing ==
    /\ wsVisible
    /\ ~wsDownloadAllDisabled
    /\ batch.pc \in {"idle", "done"}
    /\ WDoes(DownloadAllMissing(W))

\* the download request of the batch is answered
BatchResponse ==
    \E r \in DownloadOutcomes :
        /\ batch.pc = "request"
        /\ WDoes(BatchResumed(W, r))

\* the 500 ms pause of the batch is over
BatchDelay ==
    /\ batch.pc = "delay"
    /\ WDoes(BatchDelayOver(W))

\* a connection is established
SocketOpens ==
    \E k \in DOMAIN sockets :
        /\ sockets[k] = "connecting"
        /\ WDoes([W EXCEPT !.sockets[k] = "open"])

\* a connection attempt fails, an open connection is lost, or a closing
\* handshake ends: the close event
SocketCloses ==
    \E k \in DOMAIN sockets :
        /\ sockets[k] \in {"connecting", "open", "closing"}
        /\ RoomForSocket
        /\ WDoes(OnClose([W EXCEPT !.sockets[k] = "closed"]))

\* a reconnect timer fires
ReconnectTimer ==
    /\ reconnectTimers # <<>>
    /\ WDoes(OnReconnectTimer(W))

\* SpecBatch: the dialog is shown, the workflow analysed and the missing
\* models downloaded one after the other
NextBatch ==
    \/ SocketShow
    \/ Analyze
    \/ ClickDownloadAllMissing
    \/ BatchResponse
    \/ BatchDelay

SpecBatch == Init /\ [][NextBatch]_vars

\* SpecSocket: the progress socket over show, close, close events and
\* reconnect timers; a timer that is armed fires
NextSocket ==
    \/ SocketShow
    \/ SocketClose
    \/ SocketOpens
    \/ SocketCloses
    \/ ReconnectTimer

SpecSocket == Init /\ [][NextSocket]_vars /\ WF_vars(ReconnectTimer)

(***************************************************************************)
(* Claims about the dialog                                                 *)
(***************************************************************************)
\* the card of model object i, as the user sees it
Card(m) == <<m.text, m.disabled, m.status, m.bar>>

\* C1: for every model whose name is in downloadingModels, downloadModel -
\* called by a click on its button or by downloadAllModels - sends no
\* download request, starts no polling and leaves downloadingModels, the
\* model's card and the host graph as they are.
C1_DownloadOfDownloadingIsNoOp ==
    \A i \in DOMAIN missingModels :
        LET m == missingModels[i]
            all == DownloadAllModels(D)
        IN  m.rendered /\ m.name \in downloadingModels =>
                /\ DownloadModel(D, i) = D
                /\ ClickHandler(D, i) = D
                /\ all.missingModels[i] = m
                /\ m.name \in all.downloadingModels
                /\ all.activeDownloads[m.name] = activeDownloads[m.name]
                /\ all.graph = graph

\* a click has just called downloadModel for a model that is downloading
C1_Witness ==
    /\ lastCall = "guard"
    /\ \E i \in DOMAIN missingModels :
           /\ missingModels[i].name \in downloadingModels
           /\ ~missingModels[i].disabled
           /\ missingModels[i].text = "Download"

\* C2: the dialog never has two download requests of one model name under
\* way: no second POST /download-missing/download is sent for a name while
\* an earlier download of it was requested and has neither failed at
\* request time, nor been reported completed, error or cancelled, nor been
\* cancelled by close().
C2_NoSecondRequestWhileActive ==
    \A n \in Names : activeDownloads[n] # "several"

\* C3: a rendered model whose url is absent, empty or blank has a disabled
\* button.
C3_NoUrlIsDisabled ==
    \A i \in DOMAIN missingModels :
        LET m == missingModels[i]
        IN  m.rendered /\ ~HasUrl(m) => m.disabled

\* the progress statuses that can still be delivered to model object i: the
\* status responses under way and the update waiting in the pending map
Deliverable(i) ==
    {s \in Statuses : missingModels[i].inflight[s] > 0}
    \cup {pendingProgressUpdates[k].progress :
             k \in {j \in DOMAIN pendingProgressUpdates :
                        pendingProgressUpdates[j].target = i}}

\* C7: once the button of a model shows "Completed", no progress update
\* that is still delivered for it - a status response that was under way
\* when polling stopped, or the update waiting in the pending map - changes
\* the button text, and a second "completed" leaves the card and
\* downloadingModels as the first left them.
C7_CompletedStays ==
    \A i \in DOMAIN missingModels :
        LET m == missingModels[i]
            again == ApplyProgressNow(D, i, "completed")
        IN  m.rendered /\ m.text = "Completed" =>
                /\ \A s \in Deliverable(i) :
                       ApplyProgressNow(D, i, s).missingModels[i].text = "Completed"
                /\ m.status = "Download completed!" =>
                       /\ Card(again.missingModels[i]) = Card(m)
                       /\ again.downloadingModels = downloadingModels \ {m.name}

\* the cards that are in the document
RenderedCards(ms) == {i \in DOMAIN ms : ms[i].rendered}

\* C8: while the UI is frozen nothing changes in the status bar, the models
\* list, the Download All button or any card.
C8_FrozenDomUntouched ==
    [][uiFrozen /\ uiFrozen' =>
          /\ statusBar' = statusBar
          /\ listView' = listView
          /\ downloadAllDisabled' = downloadAllDisabled
          /\ \A i \in RenderedCards(missingModels) \cap RenderedCards(missingModels') :
                 Card(missingModels'[i]) = Card(missingModels[i])]_vars

IsProgress(u) == u.fn = "applyProgressUpdate"
IsDomUpdate(u) == u.fn # "applyProgressUpdate"

\* C9 as stated: the flush applies the deferred updates in the order in
\* which they were produced.
C9_ProductionOrder ==
    uiFrozen => FlushOrder(D) = deferLog

\* C9: on release the pending progress updates (the latest of each model)
\* are applied first, then the queued DOM updates in the order in which
\* they were produced; then the queue and the pending map are empty and
\* uiFrozen is false.
C9_ProgressThenQueueInOrder ==
    uiFrozen =>
        LET order == FlushOrder(D)
            after == MouseUpHandler(D)
        IN  /\ order = SelectSeq(order, IsProgress) \o SelectSeq(deferLog, IsDomUpdate)
            /\ {order[k] : k \in DOMAIN order} = {deferLog[k] : k \in DOMAIN deferLog}
            /\ Len(order) = Len(deferLog)
            /\ after.domUpdateQueue = <<>>
            /\ after.pendingProgressUpdates = <<>>
            /\ ~after.uiFrozen

\* the mouse has just been released with progress updates pending and DOM
\* updates queued
C9_Witness ==
    /\ lastCall = "flush"
    /\ ~uiFrozen
    /\ domUpdateQueue = <<>>
    /\ pendingProgressUpdates = <<>>

\* C10: the status polling of a model stops only on a status response with
\* completed, error or cancelled.
C10_PollsUntilTerminal ==
    \A i \in DOMAIN missingModels :
        missingModels[i].polling = "stopped" => missingModels[i].terminalSeen

\* scanWorkflow number k has finished: the scan request has responded or
\* has thrown
ScanFinished(k) == scans[k] \in {"done", "failed"}
\* the interval of the scan-progress poll of scanWorkflow number k is armed
ScanPollRunning(k) == scans[k] \in {"scanning", "failed"}

\* C11: once the scan request of a scanWorkflow has responded or failed, its
\* scan-progress poll is stopped: no further scan-progress request is
\* started.
C11_ScanPollStopped ==
    \A k \in DOMAIN scans : ScanFinished(k) => ~ScanPollRunning(k)

\* downloadAllModels would call downloadModel for model object i and
\* downloadModel would pass its guard
Eligible(i) ==
    LET m == missingModels[i]
    IN  /\ HasUrl(m)
        /\ m.rendered /\ ~m.disabled
        /\ m.name \notin downloadingModels

\* C12: downloadAllModels sends one download request for each model that
\* has a URL, a rendered and enabled button and is not in downloadingModels,
\* none for any other model, and has started all of them when it reaches
\* its await: no download response is processed in between.
C12_DownloadAllStartsEligible ==
    LET all == DownloadAllModels(D)
    IN  /\ \A i \in DOMAIN missingModels :
               LET m == missingModels[i]
               IN  IF Eligible(i)
                   THEN /\ all.missingModels[i] =
                               [m EXCEPT !.req = TRUE, !.disabled = TRUE,
                                         !.text = "Downloading...", !.bar = "shown",
                                         !.status = "Starting download..."]
                        /\ all.activeDownloads[m.name] = OneMore(activeDownloads[m.name])
                        /\ m.name \in all.downloadingModels
                   ELSE all.missingModels[i] = m
        /\ \A n \in Names :
               (\A i \in DOMAIN missingModels : missingModels[i].name = n => ~Eligible(i))
                   => /\ all.activeDownloads[n] = activeDownloads[n]
                      /\ (n \in all.downloadingModels) = (n \in downloadingModels)

\* Download All has just run and the download requests of both models are
\* under way
C12_Witness ==
    /\ lastCall = "all"
    /\ Len(missingModels) = 2
    /\ \A i \in DOMAIN missingModels :
           missingModels[i].req /\ missingModels[i].status = "Starting download..."

\* C13: when downloadAllMissing has finished, it has sent a download
\* request for every model that was in missingModels when it was invoked, in
\* list order, whatever the responses were (no show() and no analysis
\* having replaced the list meanwhile).
C13_EveryModelRequested ==
    batch.pc = "done" /\ batch.intact => posts = batch.list0

\* what the user sees of the dialog, and its fields
DialogState ==
    <<missingModels, notFoundModels, correctedModels, downloadingModels,
      pendingProgressUpdates, uiFrozen, isMouseDown, domUpdateQueue,
      availableFolders, statusBar, listView, downloadAllDisabled, visible>>

\* C14: close() sends one cancel request for each name in downloadingModels
\* and none for any other name, returns with these requests under way and
\* downloadingModels empty; a cancel request that ends without the backend
\* cancelling anything changes nothing in the dialog.
C14_CloseCancelsDownloads ==
    /\ [](LET c == Close(D)
          IN  /\ \A n \in Names :
                     CancelsOf(D)[n] = IF n \in downloadingModels THEN 1 ELSE 0
              /\ c.cancelRequests = cancelRequests \cup downloadingModels
              /\ c.downloadingModels = {}
              /\ c.graph = graph)
    /\ [][cancelRequests' # cancelRequests /\ cancelRequests' \subseteq cancelRequests
             => DialogState' = DialogState]_vars

\* close() has just been called with both models downloading: two cancel
\* requests are under way
C14_Witness ==
    /\ ~visible
    /\ downloadingModels = {}
    /\ cancelRequests = {"a", "b"}
    /\ \A i \in DOMAIN missingModels : missingModels[i].text = "Downloading..."

\* the scan of the latest show() has not been answered yet
LatestScanPending ==
    scans # <<>> /\ scans[Len(scans)] \in {"folders", "scanning"}

\* C15: from show() until the response to the scan of this very show() is
\* processed, missingModels, notFoundModels and correctedModels are empty;
\* right after show() so are downloadingModels, the pending-progress map and
\* the deferred-update queue, and uiFrozen is false.
C15_ShowResets ==
    /\ LatestScanPending =>
           missingModels = <<>> /\ notFoundModels = <<>> /\ correctedModels = <<>>
    /\ LET d == Show(D)
       IN  /\ d.downloadingModels = {}
           /\ d.pendingProgressUpdates = <<>>
           /\ d.domUpdateQueue = <<>>
           /\ ~d.uiFrozen

\* the status bar shows an error message, or will when the UI is unfrozen
ErrorMessages == {"Error scanning workflow"}
ErrorSurfaced ==
    \/ statusBar \in ErrorMessages
    \/ \E k \in DOMAIN domUpdateQueue :
           domUpdateQueue[k].fn = "updateStatus" /\ domUpdateQueue[k].msg \in ErrorMessages

\* this step is the failure of the folder request of the first show()
FolderRequestFails ==
    /\ Len(scans) = 1 /\ scans[1] = "folders"
    /\ scans' = <<"scanning">>
    /\ availableFolders' = <<>>

\* this step is the failure of the download request of a model
DownloadRequestFails ==
    \E i \in DOMAIN missingModels :
        /\ missingModels[i].req
        /\ missingModels[i].text # "Retry"
        /\ i \in DOMAIN missingModels'
        /\ ~missingModels'[i].req
        /\ missingModels'[i].text = "Retry"

\* C16: every failed backend call results in an error message in the status
\* bar of the dialog.
C16_FailuresReachStatusBar ==
    [][FolderRequestFails \/ DownloadRequestFails => ErrorSurfaced']_vars

\* this step sends a POST /download-missing/download
PostSent ==
    \/ \E n \in Names :
           /\ activeDownloads'[n] # activeDownloads[n]
           /\ activeDownloads'[n] = OneMore(activeDownloads[n])
    \/ \E i \in DOMAIN missingModels \cap DOMAIN missingModels' :
           ~missingModels[i].req /\ missingModels'[i].req

\* this step is a click on the enabled button of a card or on Download All
UserStarted ==
    \/ \E i \in DOMAIN missingModels :
           /\ missingModels[i].rendered /\ ~missingModels[i].disabled
           /\ D' = ClickHandler(D, i)
    \/ ~downloadAllDisabled /\ D' = DownloadAllModels(D)

\* C17: every download request is sent by a step that is a click on the
\* model's button or on Download All; no other step - a failed request, a
\* status response, a timer - sends one.
C17_NoRequestWithoutUser ==
    [][PostSent => UserStarted]_vars

\* a download request has failed: the card offers Retry and no request for
\* the model is under way
C17_Witness ==
    \E i \in DOMAIN missingModels :
        LET m == missingModels[i]
        IN  /\ m.text = "Retry" /\ ~m.disabled
            /\ ~m.req
            /\ activeDownloads[m.name] = "none"
            /\ m.name \notin downloadingModels

\* the card of model object i of d offers a retry and the name is unlocked
OffersRetry(d, i) ==
    LET m == d.missingModels[i]
    IN  /\ m.text = "Retry" /\ ~m.disabled
        /\ m.name \notin d.downloadingModels

\* C18: when the download request of a model fails, and when a progress
\* update reports the status error for a model that is polled, the name
\* leaves downloadingModels and the button reads "Retry" and is enabled.
C18_FailureOffersRetry ==
    \A i \in DOMAIN missingModels :
        LET m == missingModels[i]
        IN  /\ m.req => OffersRetry(DownloadFailed(D, i), i)
            /\ m.rendered /\ m.polling = "on" =>
                   OffersRetry(ApplyProgressNow(D, i, "error"), i)

\* C19: every close event of a progress socket arms one timer of 5000 ms,
\* and every such timer ends in a new connection attempt: after the n-th
\* close there is an n-th attempt made by a timer, whether or not the
\* attempts in between got a connection.
C19_ReconnectAfterEveryClose ==
    /\ [](/\ closeCount = Len(reconnectTimers) + timerAttempts
          /\ \A k \in DOMAIN reconnectTimers : reconnectTimers[k] = 5000)
    /\ \A n \in 1..MaxSockets : (closeCount >= n) ~> (timerAttempts >= n)

\* two connection attempts in a row have ended in a close event, and the
\* timer of the second has made the next attempt
C19_Witness ==
    /\ closeCount = 2
    /\ timerAttempts = 2
    /\ sockets = <<"closed", "closed", "connecting">>

\* C20: whenever the dialog is shown, a mouse-down on the models list
\* reaches mouseDownHandler and freezes the dialog, and the mouse-up that
\* follows reaches mouseUpHandler, which unfreezes it and leaves nothing
\* deferred.
C20_FreezeWorksInEverySession ==
    visible =>
        /\ dragListeners
        /\ MouseDownHandler(D).uiFrozen
        /\ LET up == MouseUpHandler(MouseDownHandler(D))
           IN  ~up.uiFrozen /\ up.domUpdateQueue = <<>> /\ up.pendingProgressUpdates = <<>>

\* C21: a successful scan response with corrected models leaves the graph
\* as one call of applyCorrectionsToGraph on that list leaves it, and marks
\* it dirty, in the very step that processes the response, also when the
\* display of the results is deferred; a successful response without
\* corrected models and a failed scan leave the graph as it is.
C21_ScanAppliesCorrections ==
    \A k \in DOMAIN scans :
        scans[k] = "scanning" =>
            /\ \A r \in ScanResults :
                   LET after == ScanSucceeded(D, k, r)
                       once == ApplyCorrectionsToGraph(graph, r.corrected_models)
                   IN  /\ after.correctedModels = r.corrected_models
                       /\ IF r.corrected_models # <<>>
                          THEN /\ after.graph = once.graph
                               /\ after.graph[2].widgets_values = <<"p2">>
                               /\ after.dirty
                          ELSE after.graph = graph /\ after.dirty = dirty
                       /\ uiFrozen => after.listView = listView
            /\ \A thrown \in BOOLEAN :
                   LET after == ScanFailed(D, k, thrown)
                   IN  after.graph = graph /\ after.dirty = dirty

\* the response of a scan with a corrected model has been processed while
\* the UI was frozen: the graph is corrected, the results are not displayed
C21_Witness ==
    /\ correctedModels # <<>>
    /\ graph[2].widgets_values = <<"p2">>
    /\ dirty
    /\ uiFrozen
    /\ listView # "models"
    /\ \E k \in DOMAIN domUpdateQueue : domUpdateQueue[k].fn = "displayModels"

\* C22: show() sends the folder-list request and not yet the scan request;
\* the scan request of a show() is sent in the step in which its folder-list
\* request settles, whether that succeeded or failed, and in no other step;
\* a failed folder-list request leaves availableFolders as it was.
C22_FoldersThenScan ==
    /\ [](/\ Show(D).scans = Append(scans, "folders")
          /\ \A k \in DOMAIN scans :
                 scans[k] = "folders" =>
                     \A ok \in BOOLEAN :
                         LET after == FoldersLoaded(D, k, ok)
                         IN  /\ after.scans[k] = "scanning"
                             /\ ~ok => after.availableFolders = availableFolders)
    /\ [][\A k \in DOMAIN scans' :
               scans'[k] = "scanning" =>
                   k \in DOMAIN scans /\ scans[k] \in {"folders", "scanning"}]_vars

\* the folder-list requests of two sessions have failed and the scan of
\* the second session is under way
C22_Witness ==
    /\ Len(scans) = 2
    /\ scans[2] = "scanning"
    /\ availableFolders = <<>>

\* model object j of d looks and is locked as model object j of the dialog
SameModel(d, j) ==
    /\ d.missingModels[j] = missingModels[j]
    /\ (missingModels[j].name \in d.downloadingModels)
           = (missingModels[j].name \in downloadingModels)

\* C23: a progress update (applied at once, or delivered by pollProgress
\* frozen or not), a terminal status and a failed download request for one
\* model leave the card - button, progress bar, status text - and the
\* downloadingModels membership of every other model as they are.
C23_OtherModelsUntouched ==
    \A i, j \in DOMAIN missingModels :
        i # j /\ missingModels[i].rendered =>
            /\ \A s \in Statuses :
                   /\ SameModel(ApplyProgressNow(D, i, s), j)
                   /\ SameModel(OnStatusResponse(D, missingModels[i].name, i, s, TRUE), j)
            /\ SameModel(DownloadFailed(D, i), j)

\* two downloads were outstanding and one has ended: its card reads
\* Completed and its name is unlocked, the other is still downloading
C23_Witness ==
    /\ Len(missingModels) = 2
    /\ missingModels[1].text = "Completed"
    /\ missingModels[1].name \notin downloadingModels
    /\ missingModels[2].text = "Downloading..."
    /\ missingModels[2].polling = "on"
    /\ missingModels[2].name \in downloadingModels

\* a model the Download All button is there for: it has a URL and its card
\* does not read "Completed"
ReadyToDownload(m) == HasUrl(m) /\ ~(m.rendered /\ m.text = "Completed")

\* C24: each time the state of the Download All button is recomputed, the
\* button is enabled exactly when at least one model of missingModels has a
\* non-empty URL and is not already completed; once every model with a URL
\* reads "Completed" the recomputation disables the button.
C24_DownloadAllEnabledWhenReady ==
    updateButtonTimeout /\ ~uiFrozen =>
        LET after == UpdateDownloadAllButtonStateImmediate(
                         [D EXCEPT !.updateButtonTimeout = FALSE])
        IN  after.downloadAllDisabled =
                ~(\E i \in DOMAIN missingModels : ReadyToDownload(missingModels[i]))

\* the label a terminal status gives to the button of a card
TerminalLabel(progress) ==
    CASE progress = "completed" -> "Completed"
      [] progress = "error" -> "Failed"
      [] OTHER -> "Download"

\* the terminal statuses waiting in the pending map for cards of missingModels
PendingTerminal ==
    {k \in DOMAIN pendingProgressUpdates :
        /\ pendingProgressUpdates[k].progress \in Terminal
        /\ pendingProgressUpdates[k].target \in DOMAIN missingModels
        /\ missingModels[pendingProgressUpdates[k].target].rendered}

\* C25: a terminal status received while the UI is frozen is applied after
\* the release - the label is the terminal one and the name is out of
\* downloadingModels - and is neither lost nor replaced by a non-terminal
\* status whose response was requested earlier and arrives later.
C25_TerminalSurvivesFreeze ==
    uiFrozen =>
        \A k \in PendingTerminal :
            LET u == pendingProgressUpdates[k]
                i == u.target
                m == missingModels[i]
                Released(d) == MouseUpHandler(d)
                Applied(d) ==
                    /\ d.missingModels[i].text = TerminalLabel(u.progress)
                    /\ u.name \notin d.downloadingModels
            IN  /\ Applied(Released(D))
                /\ \A s \in Statuses \ Terminal :
                       m.inflight[s] > 0 =>
                           Applied(Released(
                               OnStatusResponse(
                                   [D EXCEPT !.missingModels[i].inflight[s] = @ - 1],
                                   u.name, i, s, ~m.req)))

\* C26: no download request is sent for a model while its
\* needs_folder_selection flag is true - its button is disabled and Download
\* All skips it - and the request sent after a folder was selected carries
\* the selected folder as model_folder.
C26_NoRequestBeforeFolder ==
    /\ [](\A i \in DOMAIN missingModels :
              LET m == missingModels[i]
              IN  m.needs_folder_selection =>
                      /\ ~m.req
                      /\ m.rendered => m.disabled
                      /\ ~DownloadAllModels(D).missingModels[i].req)
    /\ [][\A i \in DOMAIN missingModels \cap DOMAIN missingModels' :
              LET m == missingModels[i]
              IN  ~m.req /\ missingModels'[i].req =>
                      /\ ~m.needs_folder_selection
                      /\ m.selected # "" =>
                             RequestBody(m).model_folder = m.selected]_vars

\* a request for the model that needed a folder is under way, after the
\* second folder of the list was selected for it
C26_Witness ==
    \E i \in DOMAIN missingModels :
        LET m == missingModels[i]
        IN  /\ m.name = "a" /\ m.req
            /\ m.selected = "g"
            /\ RequestBody(m).model_folder = "g"

\* the usages a model can come with: with or without node_id, of either
\* correction type
UsageChoices ==
    { [correction_type |-> "widget", widget_index |-> 0],
      [correction_type |-> "property", property_index |-> 0] }
    \cup { [node_id |-> n, correction_type |-> "widget", widget_index |-> 0] :
              n \in NodeIds }
    \cup { [node_id |-> n, correction_type |-> "property", property_index |-> 0] :
              n \in NodeIds }

RelatedUsagesChoices == UNION { [1..k -> UsageChoices] : k \in 0..MaxCorrections }

\* usage list us addresses entry k of the widgets / of properties.models of
\* node n
AddressesWidget(us, n, k) ==
    \E j \in DOMAIN us :
        /\ Has(us[j], "node_id") /\ us[j].node_id = n
        /\ us[j].correction_type = "widget" /\ us[j].widget_index + 1 = k
AddressesProperty(us, n, k) ==
    \E j \in DOMAIN us :
        /\ Has(us[j], "node_id") /\ us[j].node_id = n
        /\ us[j].correction_type = "property" /\ us[j].property_index + 1 = k

\* graph g with newPath at every entry a usage of us with a node_id addresses
Corrected(g, us, newPath) ==
    [n \in DOMAIN g |->
        Node([k \in DOMAIN g[n].widgets_values |->
                 IF AddressesWidget(us, n, k) THEN newPath ELSE g[n].widgets_values[k]],
             [k \in DOMAIN g[n].widgets |->
                 IF AddressesWidget(us, n, k) THEN newPath ELSE g[n].widgets[k]],
             [k \in DOMAIN g[n].models |->
                 IF AddressesProperty(us, n, k) THEN newPath ELSE g[n].models[k]])]

\* C27: when the response to a download request carries a correction, the
\* new path is applied at every related usage that has a node_id, at that
\* usage's node, correction type and index - at the model's own node when
\* there are no related usages; usages without node_id are skipped, and when
\* none remains the graph is not touched.
C27_CorrectionAtEveryUsage ==
    \A i \in DOMAIN missingModels :
        missingModels[i].req =>
            /\ DownloadAccepted(D, i, TRUE).graph
                   = Corrected(graph, UsagesOf(missingModels[i].name), "p1")
            /\ \A own \in UsageChoices, related \in RelatedUsagesChoices :
                   \/ Len(related) > 1
                          /\ own # BuildUsageMetadataFromModel(missingModels[i].name)
                   \/ LET us == UsageList(own, related)
                          after == DownloadAcceptedWith(D, i, TRUE, us)
                          none == \A j \in DOMAIN us : ~Has(us[j], "node_id")
                      IN  /\ related # <<>> => us = related
                          /\ related = <<>> => us = <<own>>
                          /\ after.graph = Corrected(graph, us, "p1")
                          /\ none => after.graph = graph /\ after.dirty = dirty

\* the response for model b carried a correction: the property entry of its
\* usage on node 2 holds the new path, the widget usage without node_id
\* changed nothing
C27_Witness ==
    /\ graph[2].models = <<"p1">>
    /\ graph[2].widgets_values = <<"old">>
    /\ graph[1] = DialogGraph[1]
    /\ dirty
    /\ \E i \in DOMAIN missingModels :
           missingModels[i].name = "b" /\ missingModels[i].polling = "on"

\* C28: in a batch of downloadAllMissing, completedCount is the number of
\* requests that succeeded without being queued and failedCount the number
\* of requests that failed.
C28_CountsMatchOutcomes ==
    /\ batch.completedCount = batch.succeeded
    /\ batch.failedCount = batch.failed

\* the progress sockets that are connecting or open
LiveSockets == {k \in DOMAIN sockets : sockets[k] \in {"connecting", "open"}}

\* C29: at any time at most one progress socket of the dialog is live, that
\* is connecting or open.
C29_OneLiveSocket == Cardinality(LiveSockets) <= 1

\* C30: after close() the progress socket is closed or closing, and no new
\* connection is opened until the next show().
C30_NoConnectionWhileClosed ==
    [][wsStatus # "" /\ ~wsVisible' =>
           /\ sockets'[websocket'] \in {"closing", "closed"}
           /\ Len(sockets') = Len(sockets)]_vars

(***************************************************************************)
(* SpecCorrections: one call of applyCorrectionsToGraph on any graph and   *)
(* any correction list of the bounded sets.                                *)
(***************************************************************************)
InitCorrections ==
    /\ DialogInit
    /\ backend = [n \in Names |-> "idle"]
    /\ showCount = 0
    /\ lastCall = ""
    /\ graph \in GraphChoices
    /\ graph0 = graph
    /\ corrections \in CorrectionLists
    /\ dirty = FALSE
    /\ escaped = FALSE
    /\ corrPc = "idle"
    /\ SocketDialogInit

CallApplyCorrections ==
    /\ corrPc = "idle"
    /\ LET r == ApplyCorrectionsToGraph(graph, corrections)
       IN  /\ graph' = r.graph
           /\ dirty' = r.dirty
           /\ escaped' = r.escaped
    /\ corrPc' = "done"
    /\ UNCHANGED <<dvars, evars, graph0, corrections, wvars>>

NextCorrections == CallApplyCorrections

SpecCorrections == InitCorrections /\ [][NextCorrections]_vars

(***************************************************************************)
(* Claims about applyCorrectionsToGraph (checked under SpecCorrections)    *)
(***************************************************************************)
\* the corrections the code skips: the node is not in the graph, the index of
\* the correction's type is missing, or the index addresses no entry of the
\* node (for a widget correction neither a widgets_values entry nor a widget)
Skipped(g, c) ==
    \/ c.node_id \notin DOMAIN g
    \/ /\ c.correction_type = "widget"
       /\ \/ ~Has(c, "widget_index")
          \/ /\ c.widget_index + 1 \notin DOMAIN g[c.node_id].widgets_values
             /\ c.widget_index + 1 \notin DOMAIN g[c.node_id].widgets
    \/ /\ c.correction_type = "property"
       /\ \/ ~Has(c, "property_index")
          \/ c.property_index + 1 \notin DOMAIN g[c.node_id].models

\* the new_path of the last correction of cs that satisfies Hits, or dflt
RECURSIVE LastNewPath(_, _, _, _)
LastNewPath(cs, i, Hits(_), dflt) ==
    IF i = 0 THEN dflt
    ELSE IF Hits(cs[i]) THEN cs[i].new_path
    ELSE LastNewPath(cs, i - 1, Hits, dflt)

WidgetHit(c, id, k) ==
    /\ c.node_id = id
    /\ c.correction_type = "widget"
    /\ Has(c, "widget_index")
    /\ c.widget_index + 1 = k

PropertyHit(c, id, k) ==
    /\ c.node_id = id
    /\ c.correction_type = "property"
    /\ Has(c, "property_index")
    /\ c.property_index + 1 = k

C5_AsStated ==
    corrPc = "done" =>
        /\ \A i \in 1..Len(corrections) :
              LET c == corrections[i]
              IN  c.node_id \in DOMAIN graph0 =>
                  /\ (/\ c.correction_type = "widget"
                      /\ Has(c, "widget_index")
                      /\ c.widget_index + 1 \in DOMAIN graph0[c.node_id].widgets_values)
                        => graph[c.node_id].widgets_values[c.widget_index + 1] = c.new_path
                  /\ (/\ c.correction_type = "property"
                      /\ Has(c, "property_index")
                      /\ c.property_index + 1 \in DOMAIN graph0[c.node_id].models)
                        => graph[c.node_id].models[c.property_index + 1] = c.new_path
        /\ \A id \in DOMAIN graph0 :
              /\ graph[id].widgets = graph0[id].widgets
              /\ \A k \in DOMAIN graph0[id].widgets_values :
                    (\A i \in 1..Len(corrections) : ~WidgetHit(corrections[i], id, k))
                        => graph[id].widgets_values[k] = graph0[id].widgets_values[k]
              /\ \A k \in DOMAIN graph0[id].models :
                    (\A i \in 1..Len(corrections) : ~PropertyHit(corrections[i], id, k))
                        => graph[id].models[k] = graph0[id].models[k]

\* C5 as amended: after the call every existing widgets_values entry, every
\* existing widget object's value and every existing properties.models entry
\* name holds the new_path of the LAST correction of the list that addresses
\* it (a widget correction addresses widgets_values[widget_index] and the
\* widget object widgets[widget_index], each if it exists), and holds its old
\* value when no correction addresses it; no node or entry is added or removed.
C5_LastCorrectionWins ==
    corrPc = "done" =>
        /\ DOMAIN graph = DOMAIN graph0
        /\ \A id \in DOMAIN graph0 :
              LET n == Len(corrections)
                  old == graph0[id]
                  new == graph[id]
              IN  /\ DOMAIN new.widgets_values = DOMAIN old.widgets_values
                  /\ DOMAIN new.widgets = DOMAIN old.widgets
                  /\ DOMAIN new.models = DOMAIN old.models
                  /\ \A k \in DOMAIN old.widgets_values :
                        LET Hits(c) == WidgetHit(c, id, k)
                        IN  new.widgets_values[k] =
                                LastNewPath(corrections, n, Hits, old.widgets_values[k])
                  /\ \A k \in DOMAIN old.widgets :
                        LET Hits(c) == WidgetHit(c, id, k)
                        IN  new.widgets[k] =
                                LastNewPath(corrections, n, Hits, old.widgets[k])
                  /\ \A k \in DOMAIN old.models :
                        LET Hits(c) == PropertyHit(c, id, k)
                        IN  new.models[k] =
                                LastNewPath(corrections, n, Hits, old.models[k])

\* two corrections address the same widgets_values entry of node 1 with
\* different paths, the node has a widget object at that index, and both the
\* entry and the widget object hold the second path
C5_Witness ==
    /\ corrPc = "done"
    /\ Len(corrections) = 2
    /\ WidgetHit(corrections[1], 1, 1)
    /\ WidgetHit(corrections[2], 1, 1)
    /\ corrections[1].new_path # corrections[2].new_path
    /\ graph0[1].widgets_values = <<"old">>
    /\ graph0[1].widgets = <<"old">>
    /\ graph[1].widgets_values = <<corrections[2].new_path>>
    /\ graph[1].widgets = <<corrections[2].new_path>>

\* C6 as stated: the call marks the graph dirty exactly when it changed a
\* value of a node (a widgets_values entry, a widget object's value or a
\* properties.models entry name).
C6_DirtyIffChanged ==
    corrPc = "done" => (dirty <=> graph # graph0)

====
